---- MODULE Spec2Model ----
(***************************************************************************)
(* A model of src/fasta_validate.cpp: the two FASTA scanners               *)
(* (validate_fasta_core, validate_fasta_core_gzip), the character          *)
(* classifier, the hsearch(3) identifier registry they share through the   *)
(* C library's process-global table, and the two entry points              *)
(* (validate_fasta_file, fasta_validator_main).                            *)
(*                                                                         *)
(* A character is the value (int) c of the char: its ASCII code, and for a *)
(* byte above 127 the byte itself where char is unsigned and the byte      *)
(* minus 256 where char is signed.  A line is the sequence of characters   *)
(* one fgets/gzgets call delivers (terminator included, shorter than       *)
(* MAXLINELEN, without NUL bytes); a file is the sequence of its lines.    *)
(* seqcount is an int; no modelled record comes near INT_MAX characters.   *)
(* A hosting program calls the entry points one after the other in the     *)
(* same process, so the registry outlives a call exactly as the C          *)
(* library's table does.                                                   *)
(***************************************************************************)
EXTENDS Integers, Sequences, FiniteSets, TLC

\* Bound: the largest number of lines of a modelled file.
MaxLines == 4

\* The nel argument of hcreate (fasta_validate.h's NUMSEQS, scaled down).
NUMSEQS == 3

VARIABLES
    libc,   \* the build's hsearch(3): POSIX leaves open what hcreate does
            \* while a table is active; "glibc" refuses, "musl" replaces it
    htab,   \* the C library's process-global hash table
    pc,     \* the hosting program: "idle" or "returned" (holding a result)
    call,   \* the call whose result is held
    start,  \* htab when that call started
    out,    \* what the call did: return code, scanner used, streams, ...
    first,  \* the return code of the same call made just before, if any
    threads,\* two runs of validate_fasta_core interleaved in the process:
            \* each one's position and locals
    probe   \* a direct call of contains_non_word_characters: its argument
            \* and its result

vars == <<libc, htab, pc, call, start, out, first, threads, probe>>

----------------------------------------------------------------------------
(* Inputs *)

\* ">a\n", ">a x\n", ">b\n", "Az\n", "A1\n", "\n"
Lines ==
    { <<62, 97, 10>>, <<62, 97, 32, 120, 10>>, <<62, 98, 10>>,
      <<65, 122, 10>>, <<65, 49, 10>>, <<10>> }

Contents == UNION { [1..n -> Lines] : n \in 0..MaxLines }

\* A file on disk: its text as lines, whether it is stored gzip-compressed,
\* and whether it can be opened.
PlainFiles == { [content |-> c, gz |-> FALSE, readable |-> TRUE] : c \in Contents }

GzipFiles == { [content |-> c, gz |-> TRUE, readable |-> TRUE] : c \in Contents }

Unreadable == [content |-> <<>>, gz |-> FALSE, readable |-> FALSE]

\* The files handed to the entry points: empty, ">a\nAz\n", ">a\n>b\n",
\* each plain and compressed, and a file that cannot be opened.
EntryFiles ==
    { [content |-> c, gz |-> g, readable |-> TRUE] :
        c \in { <<>>, << <<62, 97, 10>>, <<65, 122, 10>> >>,
                << <<62, 97, 10>>, <<62, 98, 10>> >> },
        g \in BOOLEAN }
    \cup { Unreadable }

\* "a.fa", "a.gz", ".gz", "gz", "a.gzx"
Filenames ==
    { <<"a", ".", "f", "a">>, <<"a", ".", "g", "z">>, <<".", "g", "z">>,
      <<"g", "z">>, <<"a", ".", "g", "z", "x">> }

----------------------------------------------------------------------------
(* The C library *)

strlen(s) == Len(s)

\* The null pointer: a char * that points to no string.
NULL == [address \in {0} |-> 0]

NoTable == [exists |-> FALSE, keys |-> {}, size |-> 0]

\* hcreate(nel).  glibc refuses while a table is active and sizes the table
\* to the first prime >= max(nel, 3) | 1; musl allocates a new table over
\* the old one (which leaks) and grows it on demand.
hcreate(tab, nel) ==
    LET n0 == IF nel < 3 THEN 3 ELSE nel
        n1 == IF n0 % 2 = 0 THEN n0 + 1 ELSE n0
        IsPrime(p) == \A d \in 2..(p - 1) : p % d # 0
        prime == CHOOSE p \in n1..(2 * n1) :
                    IsPrime(p) /\ \A q \in n1..(p - 1) : ~IsPrime(q)
    IN  IF tab.exists /\ libc = "glibc"
        THEN [ok |-> FALSE, tab |-> tab]
        ELSE [ok |-> TRUE,
              tab |-> [exists |-> TRUE, keys |-> {},
                       size |-> IF libc = "glibc" THEN prime ELSE 0]]

hdestroy(tab) == NoTable

\* hsearch(item, FIND) != NULL
hsearch_FIND(tab, key) == key \in tab.keys

\* hsearch(item, ENTER), its result ignored: a full glibc table takes no
\* further entry.
hsearch_ENTER(tab, key) ==
    IF key \in tab.keys THEN tab
    ELSE IF libc = "glibc" /\ Cardinality(tab.keys) >= tab.size THEN tab
    ELSE [tab EXCEPT !.keys = @ \cup {key}]

\* The lines fgets delivers from a file: its lines, or, for a compressed
\* file, its raw bytes, which start with the gzip magic 1f 8b and CM = 8.
fgets_lines(file) ==
    IF file.gz THEN << <<31, 139, 8>> >> ELSE file.content

\* The lines gzgets delivers: the inflated text of a compressed file, and
\* the text itself of a file that is not compressed (zlib reads it as is).
gzgets_lines(file) == file.content

----------------------------------------------------------------------------
(* The character classifier *)

\* contains_non_word_characters(seq, verbose): 0 when every character is a
\* letter, CR or LF; otherwise the code of the first offending character's
\* class (1: below 'A', 2: between 'Z' and 'a', 3: above 'z').
RECURSIVE classify_from(_, _)
classify_from(seq, i) ==
    IF i > strlen(seq) THEN 0
    ELSE IF seq[i] < 65
         THEN IF seq[i] # 10 /\ seq[i] # 13 THEN 1
              ELSE classify_from(seq, i + 1)
    ELSE IF seq[i] > 90 /\ seq[i] < 97 THEN 2
    ELSE IF seq[i] > 122 THEN 3
    ELSE classify_from(seq, i + 1)

\* Mutant: the upper bound of the lower-case range one too low ('z' faults).
contains_non_word_characters_z(seq, verbose) ==
    IF \E i \in 1..Len(seq) : seq[i] = 122 THEN 3 ELSE classify_from(seq, 1)

\* Mutant: the lower bound at '0' instead of 'A' (digits pass).
contains_non_word_characters_digits(seq, verbose) ==
    LET NotDigit(c) == c \notin 48..57
    IN  classify_from(SelectSeq(seq, NotDigit), 1)

\* Mutant: the return statements inside the if (verbose) blocks, so that a
\* quiet call reports nothing.
contains_non_word_characters_verbose(seq, verbose) ==
    IF verbose # 0 THEN classify_from(seq, 1) ELSE 0

\* Mutant: the test of the range between 'Z' and 'a' stops one short of
\* 'a' ('`' passes).
contains_non_word_characters_backtick(seq, verbose) ==
    LET NotBacktick(c) == c # 96
    IN  IF seq = NULL THEN 8 ELSE classify_from(SelectSeq(seq, NotBacktick), 1)

contains_non_word_characters(seq, verbose) ==
    IF seq = NULL THEN 8 ELSE classify_from(seq, 1)

----------------------------------------------------------------------------
(* The scanners *)

\* What a call did.  ret: the value returned; htab: the global table it
\* leaves; scanner: which scanner ran; created: hcreate succeeded; opened /
\* closed: the input stream; nread: lines read; err: wrote to stderr.
Outcome(ret, tab, scanner, created, opened, closed, nread, err) ==
    [ret |-> ret, htab |-> tab, scanner |-> scanner, created |-> created,
     opened |-> opened, closed |-> closed, nread |-> nread, err |-> err]

\* The state a scanner's loop carries from line to line.
Locals(firstline, seqcount, tab) ==
    [firstline |-> firstline, seqcount |-> seqcount, tab |-> tab]

\* line[0] == '>'
is_header(line) == line[1] = 62

\* char *p = strchr(line, ' '); if (p) *p = '\0'; item.key = strdup(line):
\* the line up to its first space, or all of it.
item_key(line) ==
    LET sp == { i \in 1..Len(line) : line[i] = 32 }
    IN  IF sp = {} THEN line
        ELSE SubSeq(line, 1, (CHOOSE i \in sp : \A j \in sp : i <= j) - 1)

\* Mutant: the empty check at a header line never fires.
empty_record_never(l) == l.firstline = 0 /\ l.seqcount < 0

\* if (!firstline && seqcount == 0)
empty_record(l) == l.firstline = 0 /\ l.seqcount = 0

\* Mutant: the missing-header check never fires.
missing_header_never(l) == l.firstline > 1

\* if (firstline > 0)
missing_header(l) == l.firstline > 0

\* if (seqcount == 0), after the loop
empty_at_end(l) == l.seqcount = 0

\* Mutant: the loop body without its missing-header test: a line before
\* the first header line is checked and counted as sequence content.
core_line_no_header_test(l, line, verbose) ==
    IF is_header(line)
    THEN IF empty_record(l) THEN [ret |-> 8, l |-> l]
         ELSE LET key == item_key(line)
                  l1 == Locals(0, 0, l.tab)
              IN  IF hsearch_FIND(l1.tab, key) THEN [ret |-> 2, l |-> l1]
                  ELSE [ret |-> -2,
                        l |-> Locals(0, 0, hsearch_ENTER(l1.tab, key))]
    ELSE IF contains_non_word_characters(line, verbose) # 0
         THEN [ret |-> 4, l |-> l]
    ELSE [ret |-> -2,
          l |-> Locals(l.firstline, l.seqcount + strlen(line), l.tab)]

\* One iteration of validate_fasta_core's loop, on the line just read:
\* [ret |-> the code returned, or -2 to go on, l |-> the locals after it].
core_line(l, line, verbose) ==
    IF is_header(line)
    THEN IF empty_record(l) THEN [ret |-> 8, l |-> l]
         ELSE LET key == item_key(line)
                  l1 == Locals(0, 0, l.tab)
              IN  IF hsearch_FIND(l1.tab, key) THEN [ret |-> 2, l |-> l1]
                  ELSE [ret |-> -2,
                        l |-> Locals(0, 0, hsearch_ENTER(l1.tab, key))]
    ELSE IF missing_header(l) THEN [ret |-> 1, l |-> l]
    ELSE IF contains_non_word_characters(line, verbose) # 0
         THEN [ret |-> 4, l |-> l]
    ELSE [ret |-> -2,
          l |-> Locals(l.firstline, l.seqcount + strlen(line), l.tab)]

\* validate_fasta_core after its loop: the empty check, then fclose and
\* hdestroy.
core_end(l, nread, verbose) ==
    IF empty_at_end(l)
    THEN Outcome(8, l.tab, "plain", TRUE, TRUE, FALSE, nread, verbose # 0)
    ELSE Outcome(0, hdestroy(l.tab), "plain", TRUE, TRUE, TRUE, nread, FALSE)

\* Mutant: a fault does not end the loop: the scanner reads on to the last
\* line and returns there.
RECURSIVE core_loop_reads_on(_, _, _, _)
core_loop_reads_on(lines, i, l, verbose) ==
    IF i > Len(lines) THEN core_end(l, Len(lines), verbose)
    ELSE LET r == core_line(l, lines[i], verbose)
         IN  IF r.ret # -2 /\ i = Len(lines)
             THEN Outcome(r.ret, r.l.tab, "plain", TRUE, TRUE, FALSE, i,
                          verbose # 0)
             ELSE core_loop_reads_on(lines, i + 1, r.l, verbose)

\* validate_fasta_core's loop from line i on.  A return inside the loop
\* leaves the stream open and the table in place.
RECURSIVE core_loop(_, _, _, _)
core_loop(lines, i, l, verbose) ==
    IF i > Len(lines) THEN core_end(l, Len(lines), verbose)
    ELSE LET r == core_line(l, lines[i], verbose)
         IN  IF r.ret # -2
             THEN Outcome(r.ret, r.l.tab, "plain", TRUE, TRUE, FALSE, i,
                          verbose # 0)
             ELSE core_loop(lines, i + 1, r.l, verbose)

validate_fasta_core(tab, file, verbose) ==
    LET hc == hcreate(tab, NUMSEQS)
    IN  IF ~hc.ok
        THEN Outcome(-1, tab, "plain", FALSE, FALSE, FALSE, 0, TRUE)
        ELSE IF ~file.readable
        THEN Outcome(1, hc.tab, "plain", TRUE, FALSE, FALSE, 0, verbose # 0)
        ELSE core_loop(fgets_lines(file), 1, Locals(1, 0, hc.tab), verbose)

\* One iteration of validate_fasta_core_gzip's loop, on the line just read.
core_gzip_line(l, line, verbose) ==
    IF line[1] = 62
    THEN IF l.firstline = 0 /\ l.seqcount = 0 THEN [ret |-> 8, l |-> l]
         ELSE LET sp == { i \in 1..Len(line) : line[i] = 32 }
                  key == IF sp = {} THEN line
                         ELSE SubSeq(line, 1,
                                (CHOOSE i \in sp : \A j \in sp : i <= j) - 1)
              IN  IF hsearch_FIND(l.tab, key)
                  THEN [ret |-> 2, l |-> Locals(0, 0, l.tab)]
                  ELSE [ret |-> -2,
                        l |-> Locals(0, 0, hsearch_ENTER(l.tab, key))]
    ELSE IF l.firstline > 0 THEN [ret |-> 1, l |-> l]
    ELSE IF contains_non_word_characters(line, verbose) # 0
         THEN [ret |-> 4, l |-> l]
    ELSE [ret |-> -2,
          l |-> Locals(l.firstline, l.seqcount + strlen(line), l.tab)]

\* Mutant: the gzip scanner without its empty check at end of stream.
core_gzip_end_nocheck(l, nread, verbose) ==
    Outcome(0, hdestroy(l.tab), "gzip", TRUE, TRUE, TRUE, nread, FALSE)

\* validate_fasta_core_gzip after its loop: gzclose and hdestroy, then the
\* empty check.
core_gzip_end(l, nread, verbose) ==
    IF empty_at_end(l)
    THEN Outcome(8, hdestroy(l.tab), "gzip", TRUE, TRUE, TRUE, nread,
                 verbose # 0)
    ELSE Outcome(0, hdestroy(l.tab), "gzip", TRUE, TRUE, TRUE, nread, FALSE)

\* validate_fasta_core_gzip's loop from line i on.  A return inside the
\* loop closes the stream and leaves the table in place.
RECURSIVE core_gzip_loop(_, _, _, _)
core_gzip_loop(lines, i, l, verbose) ==
    IF i > Len(lines) THEN core_gzip_end(l, Len(lines), verbose)
    ELSE LET r == core_gzip_line(l, lines[i], verbose)
         IN  IF r.ret # -2
             THEN Outcome(r.ret, r.l.tab, "gzip", TRUE, TRUE, TRUE, i,
                          verbose # 0)
             ELSE core_gzip_loop(lines, i + 1, r.l, verbose)

validate_fasta_core_gzip(tab, file, verbose) ==
    LET hc == hcreate(tab, NUMSEQS)
    IN  IF ~hc.ok
        THEN Outcome(-1, tab, "gzip", FALSE, FALSE, FALSE, 0, TRUE)
        ELSE IF ~file.readable
        THEN Outcome(1, hc.tab, "gzip", TRUE, FALSE, FALSE, 0, verbose # 0)
        ELSE core_gzip_loop(gzgets_lines(file), 1, Locals(1, 0, hc.tab),
                            verbose)

----------------------------------------------------------------------------
(* The entry points *)

\* strlen(filename) >= 3 && strcmp(filename + strlen(filename) - 3, ".gz") == 0
ends_in_gz(filename) ==
    /\ strlen(filename) >= 3
    /\ SubSeq(filename, strlen(filename) - 2, strlen(filename))
         = <<".", "g", "z">>

\* validate_fasta_file(filename, verbose); file is the file of that name.
validate_fasta_file(tab, filename, file, verbose) ==
    IF ends_in_gz(filename)
    THEN validate_fasta_core_gzip(tab, file, verbose)
    ELSE validate_fasta_core(tab, file, verbose)

\* fasta_validator_main(argc, argv) for argv = <<program, "-h">>,
\* <<program, filename>> and <<program, "-v", filename>>; file is the file
\* named by the filename argument.  (argc < 2 exits the process, and "-v"
\* without a filename passes argv[2] = NULL on: neither is modelled.)
fasta_validator_main(tab, argv, file) ==
    IF argv[2] = <<"-", "h">>
    THEN Outcome(0, tab, "none", FALSE, FALSE, FALSE, 0, FALSE)
    ELSE IF argv[2] = <<"-", "v">>
    THEN validate_fasta_core(tab, file, 1)
    ELSE validate_fasta_core(tab, file, 0)

Program == <<"f", "v">>

\* The filename argument of a call of fasta_validator_main.
main_filename(argv) ==
    IF argv[2] = <<"-", "v">> THEN argv[3] ELSE argv[2]

MainArgvs ==
    { <<Program, <<"-", "h">> >> }
    \cup { <<Program, f>> : f \in Filenames }
    \cup { <<Program, <<"-", "v">>, f>> : f \in Filenames }

----------------------------------------------------------------------------
(* The hosting program *)

Call(entry, argv, filename, file, verbose) ==
    [entry |-> entry, argv |-> argv, filename |-> filename, file |-> file,
     verbose |-> verbose]

NoCall == Call("none", <<>>, <<>>, Unreadable, 0)

NoOutcome == Outcome(0, NoTable, "none", FALSE, FALSE, FALSE, 0, FALSE)

NoFirst == [valid |-> FALSE, ret |-> 0]

\* No interleaved runs, no direct call of the classifier.
NoThreads == <<>>

NoProbe == [called |-> FALSE, seq |-> <<>>, verbose |-> 0, ret |-> 0]

\* What call c does when the global table is tab.
Run(c, tab) ==
    CASE c.entry = "core" -> validate_fasta_core(tab, c.file, c.verbose)
      [] c.entry = "gzip" -> validate_fasta_core_gzip(tab, c.file, c.verbose)
      [] c.entry = "file" ->
            validate_fasta_file(tab, c.filename, c.file, c.verbose)
      [] c.entry = "main" -> fasta_validator_main(tab, c.argv, c.file)

\* The call just chosen (call') runs to its end on the global table.
Invoke ==
    /\ start' = htab
    /\ out' = Run(call', htab)
    /\ htab' = out'.htab
    /\ pc' = "returned"
    /\ first' = NoFirst
    /\ UNCHANGED <<libc, threads, probe>>

Init ==
    /\ libc \in {"glibc", "musl"}
    /\ htab = NoTable
    /\ pc = "idle"
    /\ call = NoCall
    /\ start = NoTable
    /\ out = NoOutcome
    /\ first = NoFirst
    /\ threads = NoThreads
    /\ probe = NoProbe

\* The host calls the plain scanner on a text file (or one it cannot open).
CallCore ==
    /\ pc = "idle"
    /\ \E file \in PlainFiles \cup {Unreadable}, verbose \in {0, 1} :
          call' = Call("core", <<>>, <<>>, file, verbose)
    /\ Invoke

\* The host calls the gzip scanner on a compressed file.
CallGzip ==
    /\ pc = "idle"
    /\ \E file \in GzipFiles \cup {Unreadable}, verbose \in {0, 1} :
          call' = Call("gzip", <<>>, <<>>, file, verbose)
    /\ Invoke

CallFile ==
    /\ pc = "idle"
    /\ \E filename \in Filenames, file \in EntryFiles, verbose \in {0, 1} :
          call' = Call("file", <<>>, filename, file, verbose)
    /\ Invoke

CallMain ==
    /\ pc = "idle"
    /\ \E argv \in MainArgvs, file \in EntryFiles :
          call' = Call("main", argv, <<>>, file, 0)
    /\ Invoke

\* The host makes the call it has just made once more, on the same file.
Again ==
    /\ pc = "returned"
    /\ ~first.valid
    /\ first' = [valid |-> TRUE, ret |-> out.ret]
    /\ start' = htab
    /\ out' = Run(call, htab)
    /\ htab' = out'.htab
    /\ UNCHANGED <<libc, pc, call, threads, probe>>

\* The host takes the result and goes on.
Return ==
    /\ pc = "returned"
    /\ pc' = "idle"
    /\ call' = NoCall
    /\ start' = NoTable
    /\ out' = NoOutcome
    /\ first' = NoFirst
    /\ UNCHANGED <<libc, htab, threads, probe>>

Next == CallCore \/ CallGzip \/ CallFile \/ CallMain \/ Again \/ Return

Spec == Init /\ [][Next]_vars

----------------------------------------------------------------------------
(* Scans of files with more records than the registry was created for *)

\* Bound: the largest number of records of such a file.
MaxRecords == 5

\* ">a\n", ">b\n", ">c\n", ">d\n"
RecordHeaders ==
    { <<62, 97, 10>>, <<62, 98, 10>>, <<62, 99, 10>>, <<62, 100, 10>> }

\* The lines of a file whose records have the header lines hs, each with
\* the sequence line "Az\n".
RecordLines(hs) ==
    [i \in 1..(2 * Len(hs)) |->
        IF i % 2 = 1 THEN hs[(i + 1) \div 2] ELSE <<65, 122, 10>>]

RecordFiles ==
    { [content |-> RecordLines(hs), gz |-> FALSE, readable |-> TRUE] :
        hs \in UNION { [1..n -> RecordHeaders] : n \in 0..MaxRecords } }

InitRecords == Init

\* The host calls a scanner on a file of records.
CallRecords ==
    /\ pc = "idle"
    /\ \E file \in RecordFiles, entry \in {"core", "gzip"} :
          call' = Call(entry, <<>>, <<>>, file, 0)
    /\ Invoke

NextRecords == CallRecords \/ Return

SpecRecords == InitRecords /\ [][NextRecords]_vars

----------------------------------------------------------------------------
(* Direct calls of the classifier *)

\* Bound: the largest length of a string handed to the classifier.
MaxChars == 3

\* The byte c8 where char is signed, tab, LF, CR, space, '0', '@', 'A',
\* 'Z', '[', '`', 'a', 'z', '{', DEL, and the byte c8 where char is unsigned.
Chars == {-56, 9, 10, 13, 32, 48, 64, 65, 90, 91, 96, 97, 122, 123, 127, 200}

Strings == UNION { [1..n -> Chars] : n \in 0..MaxChars }

InitClassify == Init

\* contains_non_word_characters(seq, verbose) is called on a string or on
\* the null pointer.
Classify ==
    /\ ~probe.called
    /\ \E seq \in Strings \cup {NULL}, verbose \in {0, 1} :
          probe' = [called |-> TRUE, seq |-> seq, verbose |-> verbose,
                    ret |-> contains_non_word_characters(seq, verbose)]
    /\ UNCHANGED <<libc, htab, pc, call, start, out, first, threads>>

\* The caller takes the result.
ClassifyReturn ==
    /\ probe.called
    /\ probe' = NoProbe
    /\ UNCHANGED <<libc, htab, pc, call, start, out, first, threads>>

NextClassify == Classify \/ ClassifyReturn

SpecClassify == InitClassify /\ [][NextClassify]_vars

----------------------------------------------------------------------------
(* Two runs of validate_fasta_core interleaved in one process *)

\* Bound: the largest number of lines of a file of an interleaved run.
ParMaxLines == 2

Threads == {1, 2}

\* ">a\n", ">b\n", "Az\n"
ParLines == { <<62, 97, 10>>, <<62, 98, 10>>, <<65, 122, 10>> }

ParFiles ==
    { [content |-> c, gz |-> FALSE, readable |-> TRUE] :
        c \in UNION { [1..n -> ParLines] : n \in 0..ParMaxLines } }

\* One run: where it stands (pc), its file, the index i of the line it
\* reads next, its locals firstline and seqcount, the key of the header it
\* is looking up, and the code it returned.
Thread(at, file, i, firstline, seqcount, key, ret) ==
    [pc |-> at, file |-> file, i |-> i, firstline |-> firstline,
     seqcount |-> seqcount, key |-> key, ret |-> ret]

NotStarted == Thread("idle", Unreadable, 1, 1, 0, <<>>, 0)

\* The run returns ret.
Returned(th, ret) == [th EXCEPT !.pc = "done", !.ret = ret]

\* hsearch on no table dereferences a null pointer: the process dies, and
\* every run in it with it.
Killed == [t \in Threads |-> [threads[t] EXCEPT !.pc = "killed"]]

InitPar ==
    /\ libc \in {"glibc", "musl"}
    /\ htab = NoTable
    /\ pc = "idle"
    /\ call = NoCall
    /\ start = NoTable
    /\ out = NoOutcome
    /\ first = NoFirst
    /\ threads = [t \in Threads |-> NotStarted]
    /\ probe = NoProbe

\* A run is started on a file.
ParStart(t) ==
    /\ threads[t].pc = "idle"
    /\ \E file \in ParFiles :
          threads' = [threads EXCEPT ![t] = [@ EXCEPT !.pc = "hcreate",
                                                      !.file = file]]
    /\ UNCHANGED <<libc, htab, pc, call, start, out, first, probe>>

\* hcreate(NUMSEQS), then fopen.
ParCreate(t) ==
    /\ threads[t].pc = "hcreate"
    /\ LET hc == hcreate(htab, NUMSEQS)
       IN  IF ~hc.ok
           THEN /\ threads' = [threads EXCEPT ![t] = Returned(@, -1)]
                /\ UNCHANGED htab
           ELSE /\ threads' = [threads EXCEPT ![t].pc = "fgets"]
                /\ htab' = hc.tab
    /\ UNCHANGED <<libc, pc, call, start, out, first, probe>>

\* fgets and what the loop does with the line up to its registry lookup;
\* at end of stream the empty check and fclose.
ParLine(t) ==
    /\ threads[t].pc = "fgets"
    /\ LET th == threads[t]
           lines == fgets_lines(th.file)
       IN  threads' = [threads EXCEPT ![t] =
             IF th.i > Len(lines)
             THEN IF empty_at_end(th) THEN Returned(th, 8)
                  ELSE [th EXCEPT !.pc = "hdestroy"]
             ELSE IF is_header(lines[th.i])
             THEN IF empty_record(th) THEN Returned(th, 8)
                  ELSE [th EXCEPT !.pc = "find", !.firstline = 0,
                                  !.seqcount = 0,
                                  !.key = item_key(lines[th.i])]
             ELSE IF missing_header(th) THEN Returned(th, 1)
             ELSE IF contains_non_word_characters(lines[th.i], 0) # 0
                  THEN Returned(th, 4)
             ELSE [th EXCEPT !.seqcount = @ + strlen(lines[th.i]),
                             !.i = @ + 1]]
    /\ UNCHANGED <<libc, htab, pc, call, start, out, first, probe>>

\* hsearch(item, FIND)
ParFind(t) ==
    /\ threads[t].pc = "find"
    /\ threads' =
          IF ~htab.exists THEN Killed
          ELSE IF hsearch_FIND(htab, threads[t].key)
               THEN [threads EXCEPT ![t] = Returned(@, 2)]
          ELSE [threads EXCEPT ![t].pc = "enter"]
    /\ UNCHANGED <<libc, htab, pc, call, start, out, first, probe>>

\* (void) hsearch(item, ENTER)
ParEnter(t) ==
    /\ threads[t].pc = "enter"
    /\ IF ~htab.exists
       THEN threads' = Killed /\ UNCHANGED htab
       ELSE /\ htab' = hsearch_ENTER(htab, threads[t].key)
            /\ threads' = [threads EXCEPT ![t] = [@ EXCEPT !.pc = "fgets",
                                                           !.i = @ + 1]]
    /\ UNCHANGED <<libc, pc, call, start, out, first, probe>>

\* hdestroy(); return 0
ParDestroy(t) ==
    /\ threads[t].pc = "hdestroy"
    /\ htab' = hdestroy(htab)
    /\ threads' = [threads EXCEPT ![t] = Returned(@, 0)]
    /\ UNCHANGED <<libc, pc, call, start, out, first, probe>>

NextPar ==
    \E t \in Threads :
        \/ ParStart(t)
        \/ ParCreate(t)
        \/ ParLine(t)
        \/ ParFind(t)
        \/ ParEnter(t)
        \/ ParDestroy(t)

SpecPar == InitPar /\ [][NextPar]_vars

----------------------------------------------------------------------------
(* The vocabulary of the claims *)

\* The call held created its registry and opened its stream: it scanned.
Scanned == pc = "returned" /\ out.created /\ out.opened

\* The lines the scanner of the call held was given.
Stream ==
    IF out.scanner = "gzip" THEN gzgets_lines(call.file)
    ELSE fgets_lines(call.file)

Header(line) == Head(line) = 62

Letter(c) == c \in 65..90 \/ c \in 97..122

LineEnd(c) == c = 10 \/ c = 13

Whitespace(c) == c = 32 \/ c = 9 \/ c = 10 \/ c = 13

\* Only letters and line-ending characters.
Clean(line) == \A i \in 1..Len(line) : Letter(line[i]) \/ LineEnd(line[i])

HasLetter(line) == \E i \in 1..Len(line) : Letter(line[i])

NonEmpty(line) == \E i \in 1..Len(line) : ~LineEnd(line[i])

\* The identifier token of a header line: what follows '>' up to the first
\* whitespace character.
Token(line) ==
    LET n == CHOOSE m \in 1..Len(line) :
                /\ \A i \in 2..m : ~Whitespace(line[i])
                /\ m = Len(line) \/ Whitespace(line[m + 1])
    IN  SubSeq(line, 2, n)

\* The registry key of a header line: the line up to its first space.
KeyOf(line) ==
    LET n == CHOOSE m \in 0..Len(line) :
                /\ \A i \in 1..m : line[i] # 32
                /\ m = Len(line) \/ line[m + 1] = 32
    IN  SubSeq(line, 1, n)

Headers(s) == { i \in 1..Len(s) : Header(s[i]) }

\* Line j belongs to the record that header line i starts.
InRecord(s, i, j) == i < j /\ \A k \in (i + 1)..j : ~Header(s[k])

\* Header-prefixed records, unique identifiers, only-letter sequence content,
\* at least one sequence character per record.
WellFormed(s) ==
    /\ Len(s) >= 1
    /\ Header(s[1])
    /\ \A i \in 1..Len(s) : ~Header(s[i]) => Clean(s[i])
    /\ \A i \in Headers(s) :
          \E j \in 1..Len(s) : InRecord(s, i, j) /\ HasLetter(s[j])
    /\ \A i, j \in Headers(s) : i # j => Token(s[i]) # Token(s[j])

\* Two distinct header lines carry the same identifier token.
RepeatedToken(s) ==
    \E i, j \in Headers(s) : i # j /\ Token(s[i]) = Token(s[j])

\* The place where a record is found empty: a header line right after a
\* header line (k), or the end of a stream that is empty or ends with a
\* header line (Len(s) + 1).
EmptyAt(s, k) ==
    \/ k \in 2..Len(s) /\ Header(s[k]) /\ Header(s[k - 1])
    \/ k = Len(s) + 1 /\ (Len(s) = 0 \/ Header(s[Len(s)]))

\* A sequence line with a character that is neither a letter nor CR or LF.
BadAt(s, k) == k \in 1..Len(s) /\ ~Header(s[k]) /\ ~Clean(s[k])

\* Lines 1..k-1 raise no missing-header, invalid-character or duplicate
\* fault.
NoOtherFaultBefore(s, k) ==
    /\ k > 1 /\ Len(s) >= 1 => Header(s[1])
    /\ \A i \in 1..(k - 1) : i <= Len(s) /\ ~Header(s[i]) => Clean(s[i])
    /\ \A i, j \in Headers(s) :
          i < j /\ j < k => KeyOf(s[i]) # KeyOf(s[j])

----------------------------------------------------------------------------
(* The claims *)

\* C1: every scan of a well-formed input (header-prefixed records, pairwise
\* unique identifiers, only-letter sequence content, at least one sequence
\* character per record) returns success, 0, in either scanner.
C1_WellFormedIsValid == Scanned /\ WellFormed(Stream) => out.ret = 0

\* C1's case: a well-formed input of two records has been scanned.
C1_Witness ==
    /\ Scanned
    /\ WellFormed(Stream)
    /\ Cardinality(Headers(Stream)) = 2
    /\ out.ret = 0

\* C2, on inputs whose only defect is the repeated identifier (the first
\* line is a header line, every sequence line is clean, every record has a
\* sequence character, so that no other fault can come first): an input
\* with the same identifier token on two distinct header lines is classified
\* 2.  The code's registry key keeps the line terminator of a header line
\* without a description, so ">a\n" and ">a x\n" do not collide.
C2_RepeatedTokenIsDuplicate ==
    /\ Scanned
    /\ Len(Stream) >= 1
    /\ Header(Stream[1])
    /\ \A i \in 1..Len(Stream) : ~Header(Stream[i]) => Clean(Stream[i])
    /\ \A i \in Headers(Stream) :
          \E j \in 1..Len(Stream) :
              InRecord(Stream, i, j) /\ HasLetter(Stream[j])
    /\ RepeatedToken(Stream)
    => out.ret = 2

C4_BadCharIsFault4 == Scanned /\ (\E k \in 1..Len(Stream) : BadAt(Stream, k)) => out.ret = 4

\* C4 as amended: ... is classified 4 provided the first such line is not the
\* first line of the input and no empty-sequence or duplicate fault is raised
\* by a line before it.
C4_BadCharIsFirstFault ==
    Scanned =>
        \A k \in 1..Len(Stream) :
            /\ BadAt(Stream, k)
            /\ \A m \in 1..(k - 1) : ~BadAt(Stream, m) /\ ~EmptyAt(Stream, m)
            /\ NoOtherFaultBefore(Stream, k)
            /\ k > 1
            => out.ret = 4

\* C4's case: the offending line is the last line of the second record.
C4_Witness ==
    /\ Scanned
    /\ Len(Stream) >= 4
    /\ BadAt(Stream, 4)
    /\ \A m \in 1..3 : ~BadAt(Stream, m) /\ ~EmptyAt(Stream, m)
    /\ NoOtherFaultBefore(Stream, 4)
    /\ Header(Stream[3])
    /\ out.ret = 4

\* The first line that holds more than its terminator.
FirstNonEmpty(s, k) ==
    /\ k \in 1..Len(s)
    /\ NonEmpty(s[k])
    /\ \A m \in 1..(k - 1) : ~NonEmpty(s[m])

\* C5: an input whose first non-empty line does not begin with '>' is
\* classified 1.
C5_MissingHeaderIsFault1 ==
    Scanned =>
        \A k \in 1..Len(Stream) :
            FirstNonEmpty(Stream, k) /\ ~Header(Stream[k]) => out.ret = 1

\* C5's case: blank lines, then a sequence line, then a header line.
C5_Witness ==
    /\ Scanned
    /\ Len(Stream) >= 3
    /\ FirstNonEmpty(Stream, 2)
    /\ ~Header(Stream[2])
    /\ Header(Stream[3])
    /\ out.ret = 1

\* C6: the same call made twice in a row on the same readable file returns
\* the same code both times.  (Once a scan has returned from inside its loop,
\* the table it created is still active, and glibc's hcreate refuses the
\* next one.)
C6_Idempotent ==
    pc = "returned" /\ first.valid /\ call.file.readable
        => out.ret = first.ret

\* C7: whatever the calls before it returned, a scanner starts with a
\* registry it has just created, which holds no identifier of an earlier
\* call.
C7_RegistryFreshEachRun ==
    pc = "returned" /\ out.scanner # "none"
        => out.created /\ hcreate(start, NUMSEQS).tab.keys = {}

\* The same text as file f holds, stored compressed / stored as it is.
Compressed(f) == [f EXCEPT !.gz = TRUE]

Uncompressed(f) == [f EXCEPT !.gz = FALSE]

\* C8: from the same state of the process, the plain scanner on a text and
\* the gzip scanner on a compressed copy of it return the same code.
C8_GzipEquivalence ==
    /\ pc = "returned" /\ call.entry = "core" /\ call.file.readable
        => out.ret = validate_fasta_core_gzip(start, Compressed(call.file),
                                              call.verbose).ret
    /\ pc = "returned" /\ call.entry = "gzip" /\ call.file.readable
        => out.ret = validate_fasta_core(start, Uncompressed(call.file),
                                         call.verbose).ret

\* C8's case: the gzip scanner has found a record empty at the end of a
\* compressed text of two records.
C8_Witness ==
    /\ pc = "returned"
    /\ call.entry = "gzip"
    /\ call.file.readable
    /\ Cardinality(Headers(call.file.content)) = 2
    /\ out.nread = Len(call.file.content)
    /\ out.ret = 8

\* C9: a call returns 0, 1, 2, 4, 8 or a code above 200, and a scanner that
\* could not create its registry returns a code above 200.
C9_ResultCodes ==
    pc = "returned" =>
        /\ out.ret \in {0, 1, 2, 4, 8} \/ out.ret > 200
        /\ out.scanner # "none" /\ ~out.created => out.ret > 200

\* The filename's last three characters are ".gz".
GzSuffix(name) ==
    \E n \in 0..Len(name) :
        name = SubSeq(name, 1, n) \o <<".", "g", "z">>

\* The filename a call of an entry point was given.
GivenFilename ==
    IF call.entry = "main" THEN main_filename(call.argv) ELSE call.filename

\* C10: validate_fasta_file and fasta_validator_main both hand a filename
\* ending in ".gz" to the gzip scanner and any other to the plain scanner.
C10_AdapterBySuffix ==
    pc = "returned" /\ call.entry \in {"file", "main"} /\ out.scanner # "none"
        => out.scanner = IF GzSuffix(GivenFilename) THEN "gzip" ELSE "plain"

----------------------------------------------------------------------------
(* C11 *)

\* The call held, made with the other value of the verbose flag.
OtherVerbose == [call EXCEPT !.verbose = 1 - @]

\* C11: the verbose flag never changes the classification: from the same
\* process state (whatever table the process holds) and on the same input,
\* the run with verbose = 1 and the run with verbose = 0 return the same
\* code, leave the same registry, read the same number of lines and leave
\* the stream in the same condition.
C11_VerboseDoesNotClassify ==
    pc = "returned" /\ call.entry \in {"core", "gzip", "file"} =>
        LET o == Run(OtherVerbose, start)
        IN  /\ o.ret = out.ret
            /\ o.htab = out.htab
            /\ o.nread = out.nread
            /\ o.opened = out.opened
            /\ o.closed = out.closed

\* A verbose run that reports a character fault on its third line, in a
\* process that already holds a table.
C11_Witness ==
    /\ pc = "returned"
    /\ call.entry = "core"
    /\ call.verbose = 1
    /\ libc = "musl"
    /\ start.exists
    /\ out.ret = 4
    /\ out.nread = 3
    /\ out.err
    /\ ~Run(OtherVerbose, start).err

----------------------------------------------------------------------------
(* C12 *)

\* The code the run of thread t would return alone in a fresh process.
AloneRet(t) == validate_fasta_core(NoTable, threads[t].file, 0).ret

\* C12: the registry is owned by one run: of two runs interleaved in the
\* same process, each returns the classification it would return alone
\* from a fresh state (and so neither is lost with the process).
C12_InterleavedAsAlone ==
    \A t \in Threads :
        /\ threads[t].pc # "killed"
        /\ threads[t].pc = "done" => threads[t].ret = AloneRet(t)

----------------------------------------------------------------------------
(* C13 *)

\* C13: the registry key of a header line is its identifier token (what
\* follows '>' up to the first space, tab, CR or LF): two header lines of a
\* scanned stream have the same registry key exactly when their identifier
\* tokens are equal, with or without a description after the token.
C13_SameKeyIffSameToken ==
    Scanned =>
        \A i, j \in Headers(Stream) :
            (item_key(Stream[i]) = item_key(Stream[j]))
                <=> (Token(Stream[i]) = Token(Stream[j]))

----------------------------------------------------------------------------
(* C14 *)

\* The record that header line i starts has sequence lines, all of them
\* blank (line-ending characters only), and ends before k: k is the next
\* header line or the end of the stream.
BlankRecord(s, i, k) ==
    /\ i \in Headers(s)
    /\ k \in (i + 2)..(Len(s) + 1)
    /\ k = Len(s) + 1 \/ Header(s[k])
    /\ \A j \in (i + 1)..(k - 1) : ~Header(s[j]) /\ ~NonEmpty(s[j])

\* C14: a record whose sequence lines are all blank has no sequence
\* content, line endings not counting towards the accumulator: the scan
\* returns the empty-sequence fault (8) at the next header line or at the
\* end of the stream (no missing-header, invalid-character or duplicate
\* fault coming first).
C14_BlankRecordIsEmpty ==
    Scanned /\ (\E i, k \in 1..(Len(Stream) + 1) :
                    BlankRecord(Stream, i, k) /\ NoOtherFaultBefore(Stream, k))
        => out.ret = 8

----------------------------------------------------------------------------
(* C15 *)

\* C15: missing-header comes before empty-sequence: every scan of an input
\* of at least one line whose first line is not a header line returns 1
\* (never 8), whatever follows: also when the input has blank lines only,
\* or sequence lines only, and so no record with sequence content.
C15_MissingHeaderBeforeEmpty ==
    Scanned /\ Len(Stream) >= 1 /\ ~Header(Stream[1]) => out.ret = 1

\* A scan of two blank lines, an input with no header line and no sequence
\* character, that returned 1 on its first line.
C15_Witness ==
    /\ Scanned
    /\ Len(Stream) = 2
    /\ \A i \in 1..2 : ~Header(Stream[i]) /\ ~NonEmpty(Stream[i])
    /\ out.ret = 1
    /\ out.nread = 1

----------------------------------------------------------------------------
(* C16 *)

\* Line k of s raises a fault: it is the first line and not a header line,
\* a header line right after a header line, a header line whose key an
\* earlier header line has, or a sequence line with an invalid character.
FaultAt(s, k) ==
    /\ k \in 1..Len(s)
    /\ \/ k = 1 /\ ~Header(s[1])
       \/ EmptyAt(s, k)
       \/ Header(s[k]) /\ \E i \in Headers(s) : i < k /\ KeyOf(s[i]) = KeyOf(s[k])
       \/ BadAt(s, k)

\* The code of the fault of line k.
FaultCode(s, k) ==
    IF ~Header(s[k]) THEN (IF k = 1 THEN 1 ELSE 4)
    ELSE IF EmptyAt(s, k) THEN 8
    ELSE 2

FirstFault(s, k) == FaultAt(s, k) /\ \A i \in 1..(k - 1) : ~FaultAt(s, i)

\* The keys of the header lines before line k.
KeysBefore(s, k) == { KeyOf(s[i]) : i \in { h \in Headers(s) : h < k } }

\* C16: every scan of a finite stream ends with one classification, and the
\* first fault ends it: when line k is the first line to raise a fault, the
\* scan has read exactly k lines, the registry holds the keys of the header
\* lines before k and nothing of what follows, and the code returned is the
\* code of that fault; a scan no line of which raises a fault reads every
\* line and returns 0, or 8 at the end of the stream.
C16_FirstFaultShortCircuits ==
    Scanned =>
        /\ out.nread \in 0..Len(Stream)
        /\ out.ret \in {0, 1, 2, 4, 8}
        /\ \A k \in 1..Len(Stream) :
              FirstFault(Stream, k) =>
                  /\ out.nread = k
                  /\ out.ret = FaultCode(Stream, k)
                  /\ out.htab.keys = KeysBefore(Stream, k)
        /\ (\A k \in 1..Len(Stream) : ~FaultAt(Stream, k)) =>
              /\ out.nread = Len(Stream)
              /\ out.ret = IF EmptyAt(Stream, Len(Stream) + 1) THEN 8 ELSE 0

\* A scan of four lines that stopped at its second line, a sequence line
\* with an invalid character, although the third line repeats the first
\* header line.
C16_Witness ==
    /\ Scanned
    /\ Len(Stream) = 4
    /\ FirstFault(Stream, 2)
    /\ FaultAt(Stream, 3)
    /\ FaultCode(Stream, 3) = 2
    /\ out.nread = 2
    /\ out.ret = 4
    /\ out.htab.keys = {KeyOf(Stream[1])}

----------------------------------------------------------------------------
(* C17 *)

\* C17: for a string (not the null pointer) the classifier returns 0
\* exactly when every character is an upper-case or lower-case ASCII
\* letter, CR or LF; any other character (below 'A', between 'Z' and 'a',
\* above 'z', a byte outside ASCII) makes the result non-zero.
C17_ZeroIffClean ==
    probe.called /\ probe.seq # NULL => (probe.ret = 0 <=> Clean(probe.seq))

\* A call on letters with one byte outside ASCII between them, answered
\* with a non-zero code.
C17_Witness ==
    /\ probe.called
    /\ probe.seq # NULL
    /\ Len(probe.seq) = 3
    /\ Letter(probe.seq[1]) /\ Letter(probe.seq[3])
    /\ probe.seq[2] \notin 0..127
    /\ probe.ret # 0

----------------------------------------------------------------------------
(* C18 *)

\* C18: an empty or null argument is an error for the classifier: it
\* returns a non-zero code for the null pointer and for the empty string.
C18_EmptyOrNullIsError ==
    probe.called /\ (probe.seq = NULL \/ probe.seq = <<>>) => probe.ret # 0

----------------------------------------------------------------------------
(* C19 *)

\* C19: within a run the key of every accepted header line stays in the
\* registry for the rest of the run, however many records the input has
\* (more than NUMSEQS too): a later header line with the same key yields
\* the duplicate fault (2), when no other fault comes first.
C19_AcceptedKeyStaysRegistered ==
    Scanned =>
        \A k \in 1..Len(Stream) :
            FirstFault(Stream, k) /\ FaultCode(Stream, k) = 2 => out.ret = 2

----------------------------------------------------------------------------
(* C20 *)

\* C20: a run that opened its input stream has closed it when it returns,
\* whatever code it returns (0, 1, 2, 4, 8) and whichever scanner ran.
C20_StreamClosedAtReturn == pc = "returned" /\ out.opened => out.closed

====
